---- MODULE Spec2Model ----
(***************************************************************************)
(* Route assignment engine and route repository of the data store          *)
(* (src/src/store/dataStore.ts), and the authentication store               *)
(* (src/unnamed/part_008).                                                  *)
(*                                                                         *)
(* Units.  Coordinates are integers in 1/10000 degree.  calculateDistance  *)
(* returns centimetres; Route.distance is held in 1/100 km and             *)
(* Route.estimatedTime in 1/100 h, which is what toFixed(2) keeps.          *)
(*                                                                         *)
(* The store is a zustand store: every set(...) replaces the state and     *)
(* synchronously notifies the subscribers before it returns.  The state    *)
(* after each set is therefore a state a subscriber (or a getState caller  *)
(* run from a subscriber) observes, and each set of generateRoutes is one  *)
(* step of the model.                                                      *)
(*                                                                         *)
(* Specifications.                                                         *)
(*   Spec           the store as created (sample data), operated by event  *)
(*                  handlers, which run to completion;                     *)
(*   SpecInputs     generateRoutes applied to collections drawn from       *)
(*                  bounded sets;                                          *)
(*   SpecReentrant  Spec with a subscriber that calls the store while      *)
(*                  generateRoutes is in progress;                         *)
(*   SpecLine       generateRoutes applied to one warehouse with two       *)
(*                  trucks and stores along the equator;                   *)
(*   SpecAuth       the authentication store, its timers firing in the     *)
(*                  order they were set;                                   *)
(*   SpecForm       the truck form of the management page, filled in and   *)
(*                  submitted over the store as created;                   *)
(*   SpecManage     the store as created, with the management page         *)
(*                  deleting warehouses, stores and trucks and moving      *)
(*                  trucks between generations;                            *)
(*   SpecSnapshot   the store as created, with a subscriber that deletes   *)
(*                  warehouses, stores and trucks while generateRoutes is  *)
(*                  in progress.                                           *)
(***************************************************************************)
EXTENDS Integers, Sequences, FiniteSets, TLC

VARIABLES
  warehouses,  \* DataState.warehouses
  stores,      \* DataState.stores
  trucks,      \* DataState.trucks
  routes,      \* DataState.routes
  stack,       \* activation records of the generateRoutes calls in progress, innermost last
  calls,       \* number of generateRoutes invocations so far; also the clock read by new Date()
  edits,       \* number of addX / updateRoute / deleteRoute invocations so far
  last,        \* the step executed last
  lastPlan,    \* history: the routes computed by the generateRoutes call that returned last
  outputs,     \* history: the route collection (without id, created) at each top-level return
  call,        \* history: the id passed to, the id drawn by and the value returned by that step
  removed,     \* history: the ids deleteRoute or a clearing set took out of the collection
  user,             \* AuthState.user
  isAuthenticated,  \* AuthState.isAuthenticated
  isLoading,        \* AuthState.isLoading
  error,            \* AuthState.error
  pending,          \* the login / register calls waiting for their timer, oldest first
  authCalls,        \* number of login / register / logout invocations so far
  settled,          \* history: the call whose timer fired in the last step
  form              \* the TruckForm that is mounted: its truck prop and its useState values

authVars == <<user, isAuthenticated, isLoading, error, pending, authCalls, settled>>

dataVars == <<warehouses, stores, trucks, routes, stack, calls, edits, last, lastPlan,
              outputs, call, removed>>

formVars == <<form>>

vars == <<dataVars, authVars, formVars>>

(***************************************************************************)
(* Bounds of the model.                                                    *)
(***************************************************************************)
MaxWarehouses == 2
MaxStores == 3
MaxTrucks == 2
MaxCalls == 2
MaxEdits == 1
MaxDepth == 2
MaxAuthCalls == 3
MaxManaged == 3

(***************************************************************************)
(* Great-circle distance.  The table holds the value of the source formula *)
(* (IEEE double arithmetic, R = 6371 km), in centimetres, for every        *)
(* ordered pair of coordinates that occur together in the model.           *)
(***************************************************************************)
HaversineCm ==
   (<<0, 0, 0, 0>> :> 0)
  @@ (<<0, 0, 0, 10000>> :> 11119493)
  @@ (<<0, 0, 0, 20000>> :> 22238985)
  @@ (<<0, 0, 0, 30000>> :> 33358478)
  @@ (<<0, 0, 407128, -740060>> :> 866706815)
  @@ (<<0, 0, 377749, -1224194>> :> 1279541679)
  @@ (<<0, 0, 407112, -740055>> :> 866699403)
  @@ (<<0, 0, 408075, -739626>> :> 866541503)
  @@ (<<0, 0, 377833, -1224167>> :> 1279485699)
  @@ (<<0, 10000, 0, 0>> :> 11119493)
  @@ (<<0, 10000, 0, 10000>> :> 0)
  @@ (<<0, 10000, 0, 20000>> :> 11119493)
  @@ (<<0, 10000, 0, 30000>> :> 22238985)
  @@ (<<0, 10000, 407128, -740060>> :> 875000719)
  @@ (<<0, 10000, 377749, -1224194>> :> 1287711687)
  @@ (<<0, 10000, 407112, -740055>> :> 874993506)
  @@ (<<0, 10000, 408075, -739626>> :> 874822319)
  @@ (<<0, 10000, 377833, -1224167>> :> 1287654683)
  @@ (<<0, 20000, 0, 0>> :> 22238985)
  @@ (<<0, 20000, 0, 10000>> :> 11119493)
  @@ (<<0, 20000, 0, 20000>> :> 0)
  @@ (<<0, 20000, 0, 30000>> :> 11119493)
  @@ (<<0, 20000, 407128, -740060>> :> 883311797)
  @@ (<<0, 20000, 377749, -1224194>> :> 1295838241)
  @@ (<<0, 20000, 407112, -740055>> :> 883304783)
  @@ (<<0, 20000, 408075, -739626>> :> 883120403)
  @@ (<<0, 20000, 377833, -1224167>> :> 1295780210)
  @@ (<<0, 30000, 0, 0>> :> 33358478)
  @@ (<<0, 30000, 0, 10000>> :> 22238985)
  @@ (<<0, 30000, 0, 20000>> :> 11119493)
  @@ (<<0, 30000, 0, 30000>> :> 0)
  @@ (<<0, 30000, 407128, -740060>> :> 891638808)
  @@ (<<0, 30000, 377749, -1224194>> :> 1303919352)
  @@ (<<0, 30000, 407112, -740055>> :> 891631992)
  @@ (<<0, 30000, 408075, -739626>> :> 891434509)
  @@ (<<0, 30000, 377833, -1224167>> :> 1303860292)
  @@ (<<407128, -740060, 0, 0>> :> 866706815)
  @@ (<<407128, -740060, 0, 10000>> :> 875000719)
  @@ (<<407128, -740060, 0, 20000>> :> 883311797)
  @@ (<<407128, -740060, 0, 30000>> :> 891638808)
  @@ (<<407128, -740060, 407128, -740060>> :> 0)
  @@ (<<407128, -740060, 377749, -1224194>> :> 412908617)
  @@ (<<407128, -740060, 407112, -740055>> :> 18284)
  @@ (<<407128, -740060, 408075, -739626>> :> 1114656)
  @@ (<<407128, -740060, 377833, -1224167>> :> 412854253)
  @@ (<<377749, -1224194, 0, 0>> :> 1279541679)
  @@ (<<377749, -1224194, 0, 10000>> :> 1287711687)
  @@ (<<377749, -1224194, 0, 20000>> :> 1295838241)
  @@ (<<377749, -1224194, 0, 30000>> :> 1303919352)
  @@ (<<377749, -1224194, 407128, -740060>> :> 412908617)
  @@ (<<377749, -1224194, 377749, -1224194>> :> 0)
  @@ (<<377749, -1224194, 407112, -740055>> :> 412916343)
  @@ (<<377749, -1224194, 408075, -739626>> :> 413054595)
  @@ (<<377749, -1224194, 377833, -1224167>> :> 96371)
  @@ (<<407112, -740055, 0, 0>> :> 866699403)
  @@ (<<407112, -740055, 0, 10000>> :> 874993506)
  @@ (<<407112, -740055, 0, 20000>> :> 883304783)
  @@ (<<407112, -740055, 0, 30000>> :> 891631992)
  @@ (<<407112, -740055, 407128, -740060>> :> 18284)
  @@ (<<407112, -740055, 377749, -1224194>> :> 412916343)
  @@ (<<407112, -740055, 407112, -740055>> :> 0)
  @@ (<<407112, -740055, 408075, -739626>> :> 1130126)
  @@ (<<407112, -740055, 377833, -1224167>> :> 412861982)
  @@ (<<408075, -739626, 0, 0>> :> 866541503)
  @@ (<<408075, -739626, 0, 10000>> :> 874822319)
  @@ (<<408075, -739626, 0, 20000>> :> 883120403)
  @@ (<<408075, -739626, 0, 30000>> :> 891434509)
  @@ (<<408075, -739626, 407128, -740060>> :> 1114656)
  @@ (<<408075, -739626, 377749, -1224194>> :> 413054595)
  @@ (<<408075, -739626, 407112, -740055>> :> 1130126)
  @@ (<<408075, -739626, 408075, -739626>> :> 0)
  @@ (<<408075, -739626, 377833, -1224167>> :> 413000003)
  @@ (<<377833, -1224167, 0, 0>> :> 1279485699)
  @@ (<<377833, -1224167, 0, 10000>> :> 1287654683)
  @@ (<<377833, -1224167, 0, 20000>> :> 1295780210)
  @@ (<<377833, -1224167, 0, 30000>> :> 1303860292)
  @@ (<<377833, -1224167, 407128, -740060>> :> 412854253)
  @@ (<<377833, -1224167, 377749, -1224194>> :> 96371)
  @@ (<<377833, -1224167, 407112, -740055>> :> 412861982)
  @@ (<<377833, -1224167, 408075, -739626>> :> 413000003)
  @@ (<<377833, -1224167, 377833, -1224167>> :> 0)
  @@ (<<0, 0, 0, 1>> :> 1112)
  @@ (<<0, 0, 0, 20>> :> 22239)
  @@ (<<0, 1, 0, 0>> :> 1112)
  @@ (<<0, 1, 0, 1>> :> 0)
  @@ (<<0, 1, 0, 20>> :> 21127)
  @@ (<<0, 1, 0, 10000>> :> 11118381)
  @@ (<<0, 1, 0, 20000>> :> 22237873)
  @@ (<<0, 1, 0, 30000>> :> 33357366)
  @@ (<<0, 20, 0, 0>> :> 22239)
  @@ (<<0, 20, 0, 1>> :> 21127)
  @@ (<<0, 20, 0, 20>> :> 0)
  @@ (<<0, 20, 0, 10000>> :> 11097254)
  @@ (<<0, 20, 0, 20000>> :> 22216746)
  @@ (<<0, 20, 0, 30000>> :> 33336239)
  @@ (<<0, 10000, 0, 1>> :> 11118381)
  @@ (<<0, 10000, 0, 20>> :> 11097254)
  @@ (<<0, 20000, 0, 1>> :> 22237873)
  @@ (<<0, 20000, 0, 20>> :> 22216746)
  @@ (<<0, 30000, 0, 1>> :> 33357366)
  @@ (<<0, 30000, 0, 20>> :> 33336239)

\* faulty variant: a leg towards the west counts nothing
calculateDistanceEastward(lat1, lon1, lat2, lon2) ==
  IF lon1 <= lon2 THEN HaversineCm[<<lat1, lon1, lat2, lon2>>] ELSE 0

calculateDistance(lat1, lon1, lat2, lon2) == HaversineCm[<<lat1, lon1, lat2, lon2>>]

(***************************************************************************)
(* JavaScript numbers that need not be finite: x / 0 is Infinity for       *)
(* x > 0 and NaN for x = 0.  A finite value v is held in 1/100.            *)
(***************************************************************************)
Finite(v) == [kind |-> "finite", v |-> v]
Infinity == [kind |-> "Infinity", v |-> 0]
NaN == [kind |-> "NaN", v |-> 0]

\* what a function without a return statement gives its caller
undefined == "undefined"

\* faulty variant: the digits behind the second decimal are cut off
distanceTruncated(totalDistance) == totalDistance \div 1000

\* parseFloat(totalDistance.toFixed(2)): centimetres to 1/100 km, half rounds up
distanceToFixed2(totalDistance) == (totalDistance + 500) \div 1000

\* faulty variant: the digits behind the second decimal are cut off
estimatedTimeTruncated(totalDistance, speed) ==
  IF speed = 0
    THEN IF totalDistance = 0 THEN NaN ELSE Infinity
    ELSE IF speed > 0
      THEN Finite(totalDistance \div (1000 * speed))
      ELSE Finite(0 - (totalDistance \div (1000 * (0 - speed))))

\* parseFloat((totalDistance / speed).toFixed(2)): centimetres and km/h to 1/100 h
estimatedTimeOf(totalDistance, speed) ==
  IF speed = 0
    THEN IF totalDistance = 0 THEN NaN ELSE Infinity
    ELSE IF speed > 0
      THEN Finite((2 * totalDistance + 1000 * speed) \div (2000 * speed))
      ELSE Finite(0 - ((2 * totalDistance + 1000 * (0 - speed)) \div (2000 * (0 - speed))))

(***************************************************************************)
(* Array helpers.                                                          *)
(***************************************************************************)
\* array.find(x => x.id === id): the first element with that id
find(array, id) == array[CHOOSE i \in 1..Len(array) :
                           /\ array[i].id = id
                           /\ \A j \in 1..(i - 1) : array[j].id # id]

\* faulty variant: the filter is lost and every truck serves every warehouse
everyTruck(trucksSnap, warehouse) == trucksSnap

\* trucks.filter(t => t.warehouseId === warehouse.id)
warehouseTrucksOf(trucksSnap, warehouse) ==
  SelectSeq(trucksSnap, LAMBDA t : t.warehouseId = warehouse.id)

\* stores.map(store => ({...store, distance: calculateDistance(warehouse, store)}))
storesWithDistanceOf(storesSnap, warehouse) ==
  [i \in 1..Len(storesSnap) |->
     [id |-> storesSnap[i].id,
      distance |-> calculateDistance(warehouse.location.lat, warehouse.location.lng,
                                     storesSnap[i].location.lat, storesSnap[i].location.lng)]]

\* faulty variant: the comparator with its operands exchanged
compareDescending(a, b) == b.distance - a.distance

\* the comparator (a, b) => a.distance - b.distance
compare(a, b) == a.distance - b.distance

\* faulty variant: x goes in front of the elements that compare equal to x
insertBeforeEqual(sorted, x) ==
  LET k == Cardinality({i \in 1..Len(sorted) : sorted[i].distance - x.distance < 0})
  IN SubSeq(sorted, 1, k) \o <<x>> \o SubSeq(sorted, k + 1, Len(sorted))

\* One insertion of the stable sort: x goes behind every element that does not
\* compare greater than x.
insertSorted(sorted, x) ==
  LET k == Cardinality({i \in 1..Len(sorted) : compare(sorted[i], x) <= 0})
  IN SubSeq(sorted, 1, k) \o <<x>> \o SubSeq(sorted, k + 1, Len(sorted))

RECURSIVE sortPrefix(_, _)
sortPrefix(array, n) ==
  IF n = 0 THEN <<>> ELSE insertSorted(sortPrefix(array, n - 1), array[n])

\* storesWithDistance.sort((a, b) => a.distance - b.distance); Array.prototype.sort is stable
sortByDistance(array) == sortPrefix(array, Len(array))

\* faulty variant: the round-robin never leaves the first truck
truckIndexFirst(index, length) == 0

\* faulty variant: the round-robin runs through the roster from its end
truckIndexReversed(index, length) == (length - 1) - (index % length)

\* const truckIndex = index % warehouseTrucks.length
truckIndexOf(index, length) == index % length

\* faulty variant: the loop stops one store early
RECURSIVE truckAssignmentLosingLast(_, _, _, _)
truckAssignmentLosingLast(sorted, roster, truckId, index) ==
  IF index + 1 >= Len(sorted) THEN <<>>
  ELSE LET rest == truckAssignmentLosingLast(sorted, roster, truckId, index + 1)
       IN IF roster[(index % Len(roster)) + 1].id = truckId
            THEN <<sorted[index + 1].id>> \o rest
            ELSE rest

\* The store ids pushed to truckAssignments[truckId] by the iterations index, index + 1, ...
\* of storesWithDistance.forEach
RECURSIVE truckAssignment(_, _, _, _)
truckAssignment(sorted, roster, truckId, index) ==
  IF index >= Len(sorted) THEN <<>>
  ELSE LET rest == truckAssignment(sorted, roster, truckId, index + 1)
       IN IF roster[truckIndexOf(index, Len(roster)) + 1].id = truckId
            THEN <<sorted[index + 1].id>> \o rest
            ELSE rest

(***************************************************************************)
(* Object.entries(truckAssignments): the own keys of an object are         *)
(* enumerated with the integer-like keys first, in ascending numeric       *)
(* order, then the other string keys in the order they were created.       *)
(* arrayIndexOf gives the numeric value of the integer-like identifiers of *)
(* the model and -1 for the others.                                        *)
(***************************************************************************)
arrayIndexOf(key) == CASE key = "2" -> 2 [] key = "10" -> 10 [] OTHER -> -1

\* the keys in creation order: warehouseTrucks.forEach(truck => truckAssignments[truck.id] = [])
RECURSIVE createdKeys(_, _)
createdKeys(roster, n) ==
  IF n = 0 THEN <<>>
  ELSE LET before == createdKeys(roster, n - 1)
       IN IF \E i \in 1..Len(before) : before[i] = roster[n].id
            THEN before ELSE Append(before, roster[n].id)

RECURSIVE ascending(_)
ascending(keys) ==
  IF keys = {} THEN <<>>
  ELSE LET k == CHOOSE x \in keys : \A y \in keys : arrayIndexOf(x) <= arrayIndexOf(y)
       IN <<k>> \o ascending(keys \ {k})

entriesOrder(roster) ==
  LET keys == createdKeys(roster, Len(roster))
  IN ascending({keys[i] : i \in {j \in 1..Len(keys) : arrayIndexOf(keys[j]) >= 0}})
     \o SelectSeq(keys, LAMBDA k : arrayIndexOf(k) < 0)

(***************************************************************************)
(* The route of one truck.                                                 *)
(***************************************************************************)
\* faulty variant: the leg back to the warehouse is not added
RECURSIVE tourOneWay(_, _, _, _, _, _)
tourOneWay(storesSnap, warehouse, storeIds, index, prevLat, prevLng) ==
  IF index >= Len(storeIds)
    THEN 0
    ELSE LET store == find(storesSnap, storeIds[index + 1])
         IN calculateDistance(prevLat, prevLng, store.location.lat, store.location.lng)
            + tourOneWay(storesSnap, warehouse, storeIds, index + 1,
                         store.location.lat, store.location.lng)

\* storeIds.forEach(...): the legs from (prevLat, prevLng) through the stores index + 1, ...
\* followed by the return leg to the warehouse
RECURSIVE tourFrom(_, _, _, _, _, _)
tourFrom(storesSnap, warehouse, storeIds, index, prevLat, prevLng) ==
  IF index >= Len(storeIds)
    THEN calculateDistance(prevLat, prevLng, warehouse.location.lat, warehouse.location.lng)
    ELSE LET store == find(storesSnap, storeIds[index + 1])
         IN calculateDistance(prevLat, prevLng, store.location.lat, store.location.lng)
            + tourFrom(storesSnap, warehouse, storeIds, index + 1,
                       store.location.lat, store.location.lng)

totalDistanceOf(storesSnap, warehouse, storeIds) ==
  tourFrom(storesSnap, warehouse, storeIds, 0, warehouse.location.lat, warehouse.location.lng)

\* the Route object without id and created
routeOf(storesSnap, trucksSnap, warehouse, truckId, storeIds) ==
  LET totalDistance == totalDistanceOf(storesSnap, warehouse, storeIds)
      truck == find(trucksSnap, truckId)
  IN [warehouseId |-> warehouse.id,
      truckId |-> truckId,
      stores |-> storeIds,
      distance |-> distanceToFixed2(totalDistance),
      estimatedTime |-> estimatedTimeOf(totalDistance, truck.speed)]

\* faulty variant: a truck without stores gets a route as well
skipsNothing(storeIds) == FALSE

\* if (storeIds.length === 0) return
skipsEntry(storeIds) == Len(storeIds) = 0

\* Object.entries(truckAssignments).forEach(...): the routes of the entries from n on
RECURSIVE routesOfEntries(_, _, _, _, _, _, _)
routesOfEntries(storesSnap, trucksSnap, warehouse, roster, sorted, keys, n) ==
  IF n > Len(keys) THEN <<>>
  ELSE LET storeIds == truckAssignment(sorted, roster, keys[n], 0)
           rest == routesOfEntries(storesSnap, trucksSnap, warehouse, roster, sorted, keys, n + 1)
       IN IF skipsEntry(storeIds) THEN rest
          ELSE <<routeOf(storesSnap, trucksSnap, warehouse, keys[n], storeIds)>> \o rest

\* the body of warehouses.forEach for one warehouse
routesOfWarehouse(storesSnap, trucksSnap, warehouse) ==
  LET roster == warehouseTrucksOf(trucksSnap, warehouse)
  IN IF Len(roster) = 0 THEN <<>>
     ELSE routesOfEntries(storesSnap, trucksSnap, warehouse, roster,
                          sortByDistance(storesWithDistanceOf(storesSnap, warehouse)),
                          entriesOrder(roster), 1)

\* faulty variant: a loop that returns at the first warehouse without trucks
RECURSIVE routesUntilTruckless(_, _, _, _)
routesUntilTruckless(warehousesSnap, storesSnap, trucksSnap, n) ==
  IF n > Len(warehousesSnap) THEN <<>>
  ELSE IF Len(warehouseTrucksOf(trucksSnap, warehousesSnap[n])) = 0 THEN <<>>
  ELSE routesOfWarehouse(storesSnap, trucksSnap, warehousesSnap[n])
       \o routesUntilTruckless(warehousesSnap, storesSnap, trucksSnap, n + 1)

\* the routes generateRoutes appends, in order, for the snapshot it took
RECURSIVE routesOfWarehouses(_, _, _, _)
routesOfWarehouses(warehousesSnap, storesSnap, trucksSnap, n) ==
  IF n > Len(warehousesSnap) THEN <<>>
  ELSE routesOfWarehouse(storesSnap, trucksSnap, warehousesSnap[n])
       \o routesOfWarehouses(warehousesSnap, storesSnap, trucksSnap, n + 1)

(***************************************************************************)
(* The setters of the route collection.                                    *)
(***************************************************************************)
\* faulty variant: the collection is not cleared
notClearedRoutes(current) == current

\* set({ routes: [] })
clearedRoutes(current) == <<>>

\* set((state) => ({ routes: [...state.routes, route] }))
appendedRoutes(current, route) == Append(current, route)

\* { ...route, ...data }: the fields of data replace those of route
merged(route, data) ==
  [f \in DOMAIN route |-> IF f \in DOMAIN data THEN data[f] ELSE route[f]]

\* faulty variant: the test of the id is lost and every route takes the data
updatedEveryRoute(current, id, data) ==
  [i \in 1..Len(current) |-> merged(current[i], data)]

\* state.routes.map((route) => route.id === id ? { ...route, ...data } : route)
updatedRoutes(current, id, data) ==
  [i \in 1..Len(current) |->
     IF current[i].id = id THEN merged(current[i], data) ELSE current[i]]

\* state.routes.filter((route) => route.id !== id)
deletedRoutes(current, id) == SelectSeq(current, LAMBDA route : route.id # id)

\* the ids of a collection
idsOf(collection) == {collection[i].id : i \in 1..Len(collection)}

\* Math.random().toString(36).substring(2, 9): some identifier, not necessarily a new one
RouteIds == {"r1", "r2"}

\* the same expression where it names a new warehouse, store or truck
EntityIds == {"n1", "n2"}

\* faulty variant: the spread comes last and the id of the argument wins
withOwnId(item, id) ==
  [f \in DOMAIN item \cup {"id"} |-> IF f \in DOMAIN item THEN item[f] ELSE id]

\* { ...item, id: Math.random().toString(36).substring(2, 9) }
withId(item, id) ==
  [f \in DOMAIN item \cup {"id"} |-> IF f = "id" THEN id ELSE item[f]]

\* the Route object built from the computed fields; gen is history: the number of the
\* generateRoutes call that built the record, 0 for a record passed to addRoute
newRoute(fields, id, created, gen) ==
  [id |-> id,
   warehouseId |-> fields.warehouseId,
   truckId |-> fields.truckId,
   stores |-> fields.stores,
   distance |-> fields.distance,
   estimatedTime |-> fields.estimatedTime,
   created |-> created,
   gen |-> gen]

\* a route without id, created and the history field
core(route) ==
  [warehouseId |-> route.warehouseId,
   truckId |-> route.truckId,
   stores |-> route.stores,
   distance |-> route.distance,
   estimatedTime |-> route.estimatedTime]

cores(collection) == [i \in 1..Len(collection) |-> core(collection[i])]

\* history kept of the collection a call found on entry: each route without id and created,
\* with the call that built it
found(collection) ==
  [i \in 1..Len(collection) |->
     [fields |-> core(collection[i]), gen |-> collection[i].gen]]

(***************************************************************************)
(* Inputs of the model.                                                    *)
(***************************************************************************)
WarehouseIds == <<"w1", "w2", "w3">>
WarehouseLocations ==
  <<[lat |-> 0, lng |-> 0], [lat |-> 0, lng |-> 30000], [lat |-> 0, lng |-> 10000]>>
StoreIds == <<"s1", "s2", "s3", "s4">>
StoreLocations == {[lat |-> 0, lng |-> 0], [lat |-> 0, lng |-> 20000]}
TruckIdOrders == {<<"t1", "t2", "t3">>, <<"t1", "10", "2">>}

\* the argument of addRoute; its type has no id, an object passed at run time may carry one
ManualRoutes ==
  {[id |-> "own", warehouseId |-> "w1", truckId |-> "t1", stores |-> <<"s1">>,
    distance |-> 100, estimatedTime |-> Finite(10), created |-> 0]}

\* the data argument of updateRoute, a Partial<Route>: any fields of a route, id included
RoutePatches == {[distance |-> 1], [id |-> "r2"]}

\* the arguments of addWarehouse, addStore and addTruck
NewWarehouses == {[id |-> "own", location |-> [lat |-> 377749, lng |-> -1224194]]}
NewStores == {[id |-> "own", location |-> [lat |-> 408075, lng |-> -739626]]}
NewTrucks == {[id |-> "own", speed |-> 55, warehouseId |-> "w1"]}

\* history kept of a step: the id it was passed (the one its argument carries, for addX),
\* the id it drew and the value it returned
called(id, generated) == [id |-> id, generated |-> generated, returned |-> undefined]

\* the id an argument of addX carries, if it carries one
ownId(item) == IF "id" \in DOMAIN item THEN item.id ELSE undefined

Idle == stack = <<>>

\* history: another write of the collection took effect while these calls were between
\* their clearing set and their last appending set
intruded(frames) ==
  [d \in 1..Len(frames) |->
     IF frames[d].next <= Len(frames[d].plan)
       THEN [frames[d] EXCEPT !.intruded = TRUE]
       ELSE frames[d]]

(***************************************************************************)
(* Initial states.                                                         *)
(***************************************************************************)
\* the authentication store as create(...) builds it
null == [kind |-> "null"]

AuthCreated ==
  /\ user = null
  /\ isAuthenticated = FALSE
  /\ isLoading = FALSE
  /\ error = null
  /\ pending = <<>>
  /\ authCalls = 0
  /\ settled = null

NoCallYet ==
  /\ routes = <<>>
  /\ stack = <<>>
  /\ calls = 0
  /\ edits = 0
  /\ last = "create"
  /\ lastPlan = <<>>
  /\ outputs = <<>>
  /\ call = called("", "")
  /\ removed = {}
  /\ AuthCreated
  /\ form = null

\* the sample data
sampleWarehouses ==
  <<[id |-> "w1", location |-> [lat |-> 407128, lng |-> -740060]],
    [id |-> "w2", location |-> [lat |-> 377749, lng |-> -1224194]]>>

sampleStores ==
  <<[id |-> "s1", location |-> [lat |-> 407112, lng |-> -740055]],
    [id |-> "s2", location |-> [lat |-> 408075, lng |-> -739626]],
    [id |-> "s3", location |-> [lat |-> 377833, lng |-> -1224167]]>>

sampleTrucks ==
  <<[id |-> "t1", speed |-> 60, warehouseId |-> "w1"],
    [id |-> "t2", speed |-> 55, warehouseId |-> "w1"],
    [id |-> "t3", speed |-> 65, warehouseId |-> "w2"]>>

\* Collections as addX / updateX / deleteX can leave them, drawn from the inputs of the
\* model; the trucks have the speed of the first sample truck, but for at most one that
\* has speed 0.
InitInputs ==
  /\ warehouses = [i \in 1..MaxWarehouses |->
                     [id |-> WarehouseIds[i], location |-> WarehouseLocations[i]]]
  /\ \E n \in 0..MaxStores : \E at \in [1..n -> StoreLocations] :
       stores = [i \in 1..n |-> [id |-> StoreIds[i], location |-> at[i]]]
  /\ \E n \in 0..MaxTrucks : \E ids \in TruckIdOrders :
       \E of \in [1..n -> {WarehouseIds[i] : i \in 1..MaxWarehouses}] :
         \E stopped \in 0..n :
           trucks = [i \in 1..n |->
                       [id |-> ids[i],
                        speed |-> IF i = stopped THEN 0 ELSE sampleTrucks[1].speed,
                        warehouseId |-> of[i]]]
  /\ NoCallYet

\* The state create(...) builds: the sample data and no route.
Init ==
  /\ warehouses = sampleWarehouses
  /\ stores = sampleStores
  /\ trucks = sampleTrucks
  /\ NoCallYet

\* history: the ids of the routes the step took out of the collection are removed ids
removal == removed' = removed \cup (idsOf(routes) \ idsOf(routes'))

(***************************************************************************)
(* Operations on the route collection.                                     *)
(***************************************************************************)
addWarehouse(warehouse) ==
  /\ edits < MaxEdits
  /\ \E id \in EntityIds :
       /\ warehouses' = Append(warehouses, withId(warehouse, id))
       /\ call' = called(warehouse.id, id)
  /\ edits' = edits + 1
  /\ last' = "addWarehouse"
  /\ UNCHANGED <<stores, trucks, routes, stack, calls, lastPlan, outputs, removed, authVars, formVars>>

addStore(store) ==
  /\ edits < MaxEdits
  /\ \E id \in EntityIds :
       /\ stores' = Append(stores, withId(store, id))
       /\ call' = called(store.id, id)
  /\ edits' = edits + 1
  /\ last' = "addStore"
  /\ UNCHANGED <<warehouses, trucks, routes, stack, calls, lastPlan, outputs, removed, authVars, formVars>>

addTruck(truck) ==
  /\ edits < MaxEdits
  /\ \E id \in EntityIds :
       /\ trucks' = Append(trucks, withId(truck, id))
       /\ call' = called(ownId(truck), id)
  /\ edits' = edits + 1
  /\ last' = "addTruck"
  /\ UNCHANGED <<warehouses, stores, routes, stack, calls, lastPlan, outputs, removed, authVars, formVars>>

\* state.trucks.map((truck) => truck.id === id ? { ...truck, ...data } : truck)
updateTruck(id, data) ==
  /\ edits < MaxEdits
  /\ trucks' = [i \in 1..Len(trucks) |->
                  IF trucks[i].id = id THEN merged(trucks[i], data) ELSE trucks[i]]
  /\ edits' = edits + 1
  /\ last' = "updateTruck"
  /\ call' = called(id, "")
  /\ UNCHANGED <<warehouses, stores, routes, stack, calls, lastPlan, outputs, removed, authVars, formVars>>

addRoute(route) ==
  /\ edits < MaxEdits
  /\ \E id \in RouteIds :
       /\ routes' = appendedRoutes(routes, newRoute(route, id, route.created, 0))
       /\ call' = called(route.id, id)
  /\ stack' = intruded(stack)
  /\ edits' = edits + 1
  /\ last' = "addRoute"
  /\ UNCHANGED <<warehouses, stores, trucks, calls, lastPlan, outputs, removed, authVars, formVars>>

updateRoute(id, data) ==
  /\ edits < MaxEdits
  /\ routes' = updatedRoutes(routes, id, data)
  /\ stack' = IF routes' # routes THEN intruded(stack) ELSE stack
  /\ edits' = edits + 1
  /\ last' = "updateRoute"
  /\ call' = called(id, "")
  /\ UNCHANGED <<warehouses, stores, trucks, calls, lastPlan, outputs, removed, authVars, formVars>>

deleteRoute(id) ==
  /\ edits < MaxEdits
  /\ routes' = deletedRoutes(routes, id)
  /\ stack' = IF routes' # routes THEN intruded(stack) ELSE stack
  /\ edits' = edits + 1
  /\ last' = "deleteRoute"
  /\ call' = called(id, "")
  /\ removal
  /\ UNCHANGED <<warehouses, stores, trucks, calls, lastPlan, outputs, authVars, formVars>>

(***************************************************************************)
(* generateRoutes.  The call reads warehouses, stores and trucks once, on  *)
(* entry; no operation changes an array in place, so the routes it builds  *)
(* are a function of that snapshot (plan).  Each set is one step: the      *)
(* entry with the clearing set, one step per appending set, the return.    *)
(***************************************************************************)
\* faulty variant: the collections are read again from the store at every route
planRead(frame) == routesOfWarehouses(warehouses, stores, trucks, 1)

\* the routes the call builds from the constants it destructured from get() on entry
planOf(frame) == frame.plan

generateRoutes ==
  /\ calls < MaxCalls
  /\ stack' = Append(intruded(stack),
                     [from |-> <<warehouses, stores, trucks>>,
                      plan |-> routesOfWarehouses(warehouses, stores, trucks, 1),
                      next |-> 1,
                      pre |-> found(routes),
                      call |-> calls + 1,
                      intruded |-> FALSE])
  /\ routes' = clearedRoutes(routes)
  /\ calls' = calls + 1
  /\ last' = "generateRoutes:clear"
  /\ call' = called("", "")
  /\ UNCHANGED <<warehouses, stores, trucks, edits, lastPlan, outputs, authVars, formVars>>

generateRoutesAppend ==
  /\ ~Idle
  /\ LET top == stack[Len(stack)]
     IN /\ top.next <= Len(planOf(top))
        /\ \E id \in RouteIds :
             /\ routes' = appendedRoutes(routes,
                                        newRoute(planOf(top)[top.next], id, calls, top.call))
             /\ call' = called("", id)
        /\ stack' = [stack EXCEPT ![Len(stack)].next = top.next + 1]
  /\ last' = "generateRoutes:append"
  /\ UNCHANGED <<warehouses, stores, trucks, calls, edits, lastPlan, outputs, removed, authVars, formVars>>

generateRoutesReturn ==
  /\ ~Idle
  /\ LET top == stack[Len(stack)]
     IN /\ top.next > Len(planOf(top))
        /\ lastPlan' = planOf(top)
  /\ stack' = SubSeq(stack, 1, Len(stack) - 1)
  /\ outputs' = IF Len(stack) = 1 THEN Append(outputs, cores(routes)) ELSE outputs
  /\ last' = "generateRoutes:return"
  /\ call' = called("", "")
  /\ UNCHANGED <<warehouses, stores, trucks, routes, calls, edits, removed, authVars, formVars>>

(***************************************************************************)
(* Callers.  An event handler of the application runs to completion, so a  *)
(* user operation starts only when no generateRoutes call is in progress.  *)
(* The history of the ids a clearing set removed is kept by the callers:   *)
(* those of Spec and SpecReentrant record it, the specifications that      *)
(* apply generateRoutes to drawn inputs, where ids play no part, do not.   *)
(***************************************************************************)
UserAddWarehouse == Idle /\ \E warehouse \in NewWarehouses : addWarehouse(warehouse)
UserAddStore == Idle /\ \E store \in NewStores : addStore(store)
UserAddTruck == Idle /\ \E truck \in NewTrucks : addTruck(truck)
UserAddRoute == Idle /\ \E route \in ManualRoutes : addRoute(route)
UserUpdateRoute == Idle /\ \E id \in RouteIds, data \in RoutePatches : updateRoute(id, data)
UserDeleteRoute == Idle /\ \E id \in RouteIds : deleteRoute(id)
UserGenerateRoutes == Idle /\ generateRoutes /\ removal

Next ==
  \/ UserAddWarehouse
  \/ UserAddStore
  \/ UserAddTruck
  \/ UserAddRoute
  \/ UserUpdateRoute
  \/ UserDeleteRoute
  \/ UserGenerateRoutes
  \/ generateRoutesAppend
  \/ generateRoutesReturn

Spec == Init /\ [][Next]_vars

\* generateRoutes applied to the inputs of the model
InputsGenerateRoutes == Idle /\ generateRoutes /\ UNCHANGED removed

NextGenerate ==
  \/ InputsGenerateRoutes
  \/ generateRoutesAppend
  \/ generateRoutesReturn

SpecInputs == InitInputs /\ [][NextGenerate]_vars

(***************************************************************************)
(* A subscriber of the store is called inside every set and may call the   *)
(* operations of the store itself, while generateRoutes is in progress.    *)
(***************************************************************************)
SubscriberAddRoute == ~Idle /\ \E route \in ManualRoutes : addRoute(route)
SubscriberUpdateRoute == ~Idle /\ \E id \in RouteIds, data \in RoutePatches : updateRoute(id, data)
SubscriberDeleteRoute == ~Idle /\ \E id \in RouteIds : deleteRoute(id)
SubscriberGenerateRoutes == ~Idle /\ Len(stack) < MaxDepth /\ generateRoutes /\ removal

NextReentrant ==
  \/ Next
  \/ SubscriberAddRoute
  \/ SubscriberUpdateRoute
  \/ SubscriberDeleteRoute
  \/ SubscriberGenerateRoutes

SpecReentrant == Init /\ [][NextReentrant]_vars

(***************************************************************************)
(* One warehouse at (0, 0) with two trucks of speed 60, and stores on the  *)
(* equator: at the warehouse, 11 m, 222 m and 1, 2 and 3 degrees east of   *)
(* it.                                                                     *)
(***************************************************************************)
LineLocations ==
  {[lat |-> 0, lng |-> 0], [lat |-> 0, lng |-> 1], [lat |-> 0, lng |-> 20],
   [lat |-> 0, lng |-> 10000], [lat |-> 0, lng |-> 20000], [lat |-> 0, lng |-> 30000]}
LineStoreIds == <<"D1", "D2", "D3", "D4">>

InitLine ==
  /\ warehouses = <<[id |-> "w1", location |-> [lat |-> 0, lng |-> 0]]>>
  /\ \E n \in 0..MaxStores : \E at \in [1..n -> LineLocations] :
       stores = [i \in 1..n |-> [id |-> LineStoreIds[i], location |-> at[i]]]
  /\ trucks = <<[id |-> "V1", speed |-> sampleTrucks[1].speed, warehouseId |-> "w1"],
                [id |-> "V2", speed |-> sampleTrucks[1].speed, warehouseId |-> "w1"]>>
  /\ NoCallYet

SpecLine == InitLine /\ [][NextGenerate]_vars

(***************************************************************************)
(* The authentication store.  login and register set isLoading, wait for a *)
(* timer of 1000 ms and then write their result; timers of equal delay     *)
(* fire in the order they were set, so the waiting calls resume oldest     *)
(* first.  The promise they wait for never rejects: the catch branches are *)
(* not reachable.                                                          *)
(***************************************************************************)
Usernames == {"admin", "wrong"}
Passwords == {"password", "credentials"}
Registrations == {[username |-> "newuser", email |-> "test@example.com"]}
UserIds == {"u1", "u2"}

\* faulty variant: the password is not compared
anyPasswordAccepted(username, password) == username = "admin"

\* username === 'admin' && password === 'password'
credentialsAccepted(username, password) == username = "admin" /\ password = "password"

\* history: a call started while these calls were waiting
overlapped(waiting) == [n \in 1..Len(waiting) |-> [waiting[n] EXCEPT !.alone = FALSE]]

\* history: logout ran while these calls were waiting
outdated(waiting) == [n \in 1..Len(waiting) |-> [waiting[n] EXCEPT !.stale = TRUE]]

\* a call up to its await; loggedOut, alone and stale are history: the store held no user
\* and no other call was waiting when the call started, and no logout has run since
awaiting(op, username, password, email) ==
  /\ authCalls < MaxAuthCalls
  /\ isLoading' = TRUE
  /\ error' = null
  /\ pending' = Append(overlapped(pending),
                       [op |-> op, username |-> username, password |-> password,
                        email |-> email,
                        loggedOut |-> (~isAuthenticated /\ user = null),
                        alone |-> (pending = <<>>),
                        stale |-> FALSE])
  /\ authCalls' = authCalls + 1
  /\ settled' = null
  /\ UNCHANGED <<user, isAuthenticated, dataVars, formVars>>

login(username, password) == awaiting("login", username, password, "")

\* login behind its await
loginResumed ==
  /\ pending # <<>>
  /\ Head(pending).op = "login"
  /\ IF credentialsAccepted(Head(pending).username, Head(pending).password)
       THEN /\ user' = [id |-> "1", username |-> Head(pending).username,
                        email |-> "admin@example.com", role |-> "admin"]
            /\ isAuthenticated' = TRUE
            /\ isLoading' = FALSE
            /\ error' = error
       ELSE /\ error' = [message |-> "Invalid credentials"]
            /\ isLoading' = FALSE
            /\ UNCHANGED <<user, isAuthenticated>>
  /\ pending' = Tail(pending)
  /\ settled' = Head(pending)
  /\ UNCHANGED <<authCalls, dataVars, formVars>>

register(username, email, password) == awaiting("register", username, password, email)

\* register behind its await
registerResumed ==
  /\ pending # <<>>
  /\ Head(pending).op = "register"
  /\ \E id \in UserIds :
       user' = [id |-> id, username |-> Head(pending).username,
                email |-> Head(pending).email, role |-> "user"]
  /\ isAuthenticated' = TRUE
  /\ isLoading' = FALSE
  /\ pending' = Tail(pending)
  /\ settled' = Head(pending)
  /\ UNCHANGED <<error, authCalls, dataVars, formVars>>

logout ==
  /\ authCalls < MaxAuthCalls
  /\ user' = null
  /\ isAuthenticated' = FALSE
  /\ authCalls' = authCalls + 1
  /\ settled' = null
  /\ pending' = outdated(pending)
  /\ UNCHANGED <<isLoading, error, dataVars, formVars>>

UserLogin == \E username \in Usernames, password \in Passwords : login(username, password)
UserRegister ==
  \E r \in Registrations, password \in Passwords : register(r.username, r.email, password)

NextAuth ==
  \/ UserLogin
  \/ UserRegister
  \/ logout
  \/ loginResumed
  \/ registerResumed

SpecAuth == Init /\ [][NextAuth]_vars

(***************************************************************************)
(* The truck form (TruckForm).  The fields hold the text of the inputs; a  *)
(* truck of the model has no name and no capacity, which the form checks   *)
(* and passes on all the same.                                             *)
(***************************************************************************)
NameTexts == {" ", "Van"}
CapacityTexts == {"abc", "1000"}
SpeedTexts == {"", "abc", "0", "-5", "55"}
WarehouseChoices == {"", sampleWarehouses[2].id}

\* String.prototype.trim on the texts of the model
trim(text) == IF text = " " THEN "" ELSE text

\* Number(text) on the texts of the model
Number(text) ==
  CASE text \in {"", " ", "0"} -> Finite(0)
    [] text = "abc" -> NaN
    [] text = "-5" -> Finite(0 - 5)
    [] text = "55" -> Finite(55)
    [] text = "1000" -> Finite(1000)

isNaN(number) == number.kind = "NaN"

\* faulty variant: only an empty input is refused
requiredOnly(text) == IF trim(text) = "" THEN "required" ELSE ""

\* the message for capacity or speed: '' when the text passes
positiveNumber(text) ==
  IF trim(text) = "" THEN "required"
  ELSE IF isNaN(Number(text)) \/ Number(text).v <= 0 THEN "must be a positive number"
  ELSE ""

\* newErrors as handleSubmit fills it
newErrorsOf(fields) ==
  [name |-> IF trim(fields.name) = "" THEN "required" ELSE "",
   capacity |-> positiveNumber(fields.capacity),
   speed |-> positiveNumber(fields.speed),
   warehouseId |-> IF fields.warehouseId = "" THEN "required" ELSE ""]

noErrors == [name |-> "", capacity |-> "", speed |-> "", warehouseId |-> ""]

\* truckData, without name and capacity
truckDataOf(fields) == [speed |-> Number(fields.speed).v, warehouseId |-> fields.warehouseId]

\* the form is mounted, for a new truck (null) or for one of the trucks, and the user
\* leaves or replaces the text of each input
TruckFormChange ==
  /\ \E truck \in {null} \cup {trucks[i] : i \in 1..Len(trucks)} :
     \E name \in NameTexts, capacity \in CapacityTexts, speed \in SpeedTexts,
        warehouseId \in WarehouseChoices :
       form' = [truck |-> truck, name |-> name, capacity |-> capacity, speed |-> speed,
                warehouseId |-> warehouseId, errors |-> noErrors]
  /\ last' = "TruckForm:change"
  /\ UNCHANGED <<warehouses, stores, trucks, routes, stack, calls, edits, lastPlan,
                 outputs, call, removed, authVars>>

\* handleSubmit
TruckFormSubmit ==
  /\ form # null
  /\ IF newErrorsOf(form) # noErrors
       THEN /\ form' = [form EXCEPT !.errors = newErrorsOf(form)]
            /\ last' = "TruckForm:setErrors"
            /\ UNCHANGED <<warehouses, stores, trucks, routes, stack, calls, edits,
                           lastPlan, outputs, call, removed, authVars>>
       ELSE IF form.truck # null
         THEN updateTruck(form.truck.id, truckDataOf(form))
         ELSE addTruck(truckDataOf(form))

NextForm ==
  \/ TruckFormChange
  \/ TruckFormSubmit

SpecForm == Init /\ [][NextForm]_vars

(***************************************************************************)
(* The management page (ManagementPage): deletion of a listed warehouse,   *)
(* store or truck, and the truck form moving a truck to a warehouse.       *)
(***************************************************************************)
\* faulty variant: a cascade drops the routes that name the deleted id
routesCascaded(current, id) ==
  SelectSeq(current, LAMBDA route :
    /\ route.warehouseId # id
    /\ route.truckId # id
    /\ \A p \in 1..Len(route.stores) : route.stores[p] # id)

\* the object passed to set has no routes key: set keeps the routes of the state
routesKept(current, id) == current

\* state.warehouses.filter((warehouse) => warehouse.id !== id), and the like
without(collection, id) == SelectSeq(collection, LAMBDA item : item.id # id)

deleteWarehouse(id) ==
  /\ warehouses' = without(warehouses, id)
  /\ routes' = routesKept(routes, id)
  /\ last' = "deleteWarehouse"
  /\ UNCHANGED <<stores, trucks>>

deleteStore(id) ==
  /\ stores' = without(stores, id)
  /\ routes' = routesKept(routes, id)
  /\ last' = "deleteStore"
  /\ UNCHANGED <<warehouses, trucks>>

deleteTruck(id) ==
  /\ trucks' = without(trucks, id)
  /\ routes' = routesKept(routes, id)
  /\ last' = "deleteTruck"
  /\ UNCHANGED <<warehouses, stores>>

\* one of the three deletions, for an id of its collection
deleteListed ==
  /\ edits < MaxManaged
  /\ \E type \in {"warehouses", "stores", "trucks"} :
       \E id \in idsOf(CASE type = "warehouses" -> warehouses
                         [] type = "stores" -> stores
                         [] type = "trucks" -> trucks) :
         /\ CASE type = "warehouses" -> deleteWarehouse(id)
              [] type = "stores" -> deleteStore(id)
              [] type = "trucks" -> deleteTruck(id)
         /\ call' = called(id, "")
  /\ edits' = edits + 1
  /\ UNCHANGED <<stack, calls, lastPlan, outputs, removed, authVars, formVars>>

\* handleDelete, the user confirming, for an item of the list shown
handleDelete == Idle /\ deleteListed

\* the truck form, submitted for a listed truck with a speed and a warehouse that pass
TruckMoved ==
  /\ Idle
  /\ \E i \in 1..Len(trucks), w \in 1..Len(warehouses) :
       updateTruck(trucks[i].id, [speed |-> trucks[i].speed, warehouseId |-> warehouses[w].id])

NextManage ==
  \/ handleDelete
  \/ TruckMoved
  \/ UserGenerateRoutes
  \/ generateRoutesAppend
  \/ generateRoutesReturn

SpecManage == Init /\ [][NextManage]_vars

(***************************************************************************)
(* A subscriber of the store that deletes a warehouse, a store or a truck  *)
(* when it is notified while generateRoutes is in progress.                *)
(***************************************************************************)
SubscriberDelete == ~Idle /\ deleteListed

NextSnapshot ==
  \/ UserGenerateRoutes
  \/ generateRoutesAppend
  \/ generateRoutesReturn
  \/ SubscriberDelete

SpecSnapshot == Init /\ [][NextSnapshot]_vars


(***************************************************************************)
(* Vocabulary of the properties.                                           *)
(***************************************************************************)
Top == stack[Len(stack)]
Returned == last = "generateRoutes:return"
Min(a, b) == IF a <= b THEN a ELSE b

\* positions in trucks of the trucks of the w-th warehouse, and the rank of one in that roster
Roster(w) == {k \in 1..Len(trucks) : trucks[k].warehouseId = warehouses[w].id}
Rank(w, k) == Cardinality({j \in Roster(w) : j <= k})

\* positions in routes of the routes of a warehouse, and of one of its trucks
RoutesFor(warehouseId) == {i \in 1..Len(routes) : routes[i].warehouseId = warehouseId}
RoutesOf(warehouseId, truckId) == {i \in RoutesFor(warehouseId) : routes[i].truckId = truckId}

\* number of stops of the routes at the given positions
RECURSIVE Stops(_)
Stops(positions) ==
  IF positions = {} THEN 0
  ELSE LET i == CHOOSE x \in positions : TRUE
       IN Len(routes[i].stores) + Stops(positions \ {i})

\* number of times a store is listed by route i
Visits(i, storeId) == Cardinality({p \in 1..Len(routes[i].stores) : routes[i].stores[p] = storeId})

RECURSIVE VisitsIn(_, _)
VisitsIn(positions, storeId) ==
  IF positions = {} THEN 0
  ELSE LET i == CHOOSE x \in positions : TRUE
       IN Visits(i, storeId) + VisitsIn(positions \ {i}, storeId)

\* distance of a store from a warehouse, both given by identifier
DistanceFrom(warehouseId, storeId) ==
  LET w == find(warehouses, warehouseId)
      s == find(stores, storeId)
  IN calculateDistance(w.location.lat, w.location.lng, s.location.lat, s.location.lng)

PositionOf(storeId) == CHOOSE p \in 1..Len(stores) : stores[p].id = storeId

(***************************************************************************)
(* C1.  While generateRoutes runs, every value of the route collection a   *)
(* reader can observe is the complete collection from before the call or   *)
(* the complete collection of the new generation.                          *)
(***************************************************************************)
C1_ObservedCollectionIsWhole ==
  ~Idle => \/ found(routes) = Top.pre
           \/ Top.next > Len(Top.plan) /\ cores(routes) = Top.plan

(***************************************************************************)
(* C2.  At every step of a generateRoutes call and when it has returned,   *)
(* the collection holds only routes built by that call: no route that was  *)
(* in the collection before the call, generated or added by addRoute, is   *)
(* left in it.                                                             *)
(***************************************************************************)
C2_OnlyRoutesOfThisCall ==
  /\ ~Idle =>
       /\ \A i \in 1..Len(routes) : routes[i].gen = Top.call
       /\ \A i \in 1..Len(routes), j \in 1..Len(Top.pre) : routes[i].gen # Top.pre[j].gen
  /\ Returned =>
       /\ \A i \in 1..Len(routes) : routes[i].gen = calls
       /\ cores(routes) = lastPlan

C2_Witness ==
  /\ ~Idle
  /\ Top.next > Len(Top.plan)
  /\ Len(routes) > 0
  /\ \E i, j \in 1..Len(Top.pre) : Top.pre[i].gen = 0 /\ Top.pre[j].gen = 1

(***************************************************************************)
(* C3.  A generateRoutes call is one indivisible write: no other write of  *)
(* the route collection takes effect between its clearing step and its     *)
(* last append, and when it returns the collection is exactly the routes   *)
(* the call computed.                                                      *)
(***************************************************************************)
C3_GenerationIsIndivisible ==
  /\ \A d \in 1..Len(stack) : ~stack[d].intruded
  /\ Returned => cores(routes) = lastPlan

(***************************************************************************)
(* C4.  After generateRoutes, every warehouse has exactly one route for    *)
(* each of its trucks that was assigned a store and none for the others:   *)
(* min(M, N) routes for M >= 1 trucks and N stores; no route has an empty  *)
(* stores list.                                                            *)
(***************************************************************************)
C4_OneRoutePerLoadedTruck ==
  Returned =>
    /\ \A i \in 1..Len(routes) : Len(routes[i].stores) > 0
    /\ \A w \in 1..Len(warehouses) :
         LET M == Cardinality(Roster(w))
             N == Len(stores)
         IN /\ Cardinality(RoutesFor(warehouses[w].id)) = Min(M, N)
            /\ \A k \in Roster(w) :
                 Cardinality(RoutesOf(warehouses[w].id, trucks[k].id))
                   = IF Rank(w, k) <= N THEN 1 ELSE 0

C4_Witness ==
  /\ Returned
  /\ \E w \in 1..Len(warehouses) :
       /\ Cardinality(Roster(w)) = 2
       /\ Len(stores) = 1
       /\ Cardinality(RoutesFor(warehouses[w].id)) = 1

(***************************************************************************)
(* C5.  For a warehouse with N stores and M trucks, 1 <= M <= N, the       *)
(* numbers of stops of its trucks' routes sum to N and any two of them     *)
(* differ by at most 1.                                                    *)
(***************************************************************************)
C5_BalancedPartition ==
  Returned =>
    \A w \in 1..Len(warehouses) :
      LET M == Cardinality(Roster(w))
          N == Len(stores)
          load(k) == Stops(RoutesOf(warehouses[w].id, trucks[k].id))
      IN (1 <= M /\ M <= N) =>
           /\ Stops(RoutesFor(warehouses[w].id)) = N
           /\ \A k \in Roster(w) : load(k) >= 1
           /\ \A k1, k2 \in Roster(w) : load(k1) - load(k2) <= 1

C5_Witness ==
  /\ Returned
  /\ \E w \in 1..Len(warehouses) :
       /\ Cardinality(Roster(w)) = 2
       /\ Len(stores) = 3
       /\ \E i, j \in RoutesFor(warehouses[w].id) :
            Len(routes[i].stores) = 2 /\ Len(routes[j].stores) = 1

(***************************************************************************)
(* C6.  generateRoutes produces a route for a warehouse exactly when the   *)
(* warehouse has a truck and the store set is not empty; a warehouse       *)
(* without trucks yields no route and does not stop the processing of the  *)
(* warehouses behind it.                                                   *)
(***************************************************************************)
C6_RoutesIffTrucksAndStores ==
  Returned =>
    \A w \in 1..Len(warehouses) :
      (RoutesFor(warehouses[w].id) # {}) <=> (Roster(w) # {} /\ Len(stores) > 0)

C6_Witness ==
  /\ Returned
  /\ Len(warehouses) = 2
  /\ Roster(1) = {}
  /\ RoutesFor(warehouses[1].id) = {}
  /\ RoutesFor(warehouses[2].id) # {}

(***************************************************************************)
(* C7.  After generateRoutes, for every warehouse that has a truck, every  *)
(* store is listed exactly once by the routes of that warehouse taken      *)
(* together; with two such warehouses a store is listed once for each.     *)
(***************************************************************************)
C7_EveryStoreOncePerWarehouse ==
  Returned =>
    \A w \in 1..Len(warehouses) :
      Roster(w) # {} =>
        \A s \in 1..Len(stores) : VisitsIn(RoutesFor(warehouses[w].id), stores[s].id) = 1

C7_Witness ==
  /\ Returned
  /\ Len(warehouses) = 2
  /\ Roster(1) # {}
  /\ Roster(2) # {}
  /\ Len(stores) >= 2
  /\ VisitsIn(1..Len(routes), stores[1].id) = 2

(***************************************************************************)
(* C8.  Within every route generateRoutes appends, the stores are listed   *)
(* in non-decreasing order of their distance from the route's warehouse.   *)
(***************************************************************************)
C8_StoresByAscendingDistance ==
  last \in {"generateRoutes:append", "generateRoutes:return"} =>
    \A i \in 1..Len(routes) :
      \A p, q \in 1..Len(routes[i].stores) :
        p < q => DistanceFrom(routes[i].warehouseId, routes[i].stores[p])
                   <= DistanceFrom(routes[i].warehouseId, routes[i].stores[q])

\* a route whose two stops are in the opposite order of the stores collection
C8_Witness ==
  /\ last = "generateRoutes:append"
  /\ \E i \in 1..Len(routes) :
       /\ Len(routes[i].stores) = 2
       /\ PositionOf(routes[i].stores[1]) > PositionOf(routes[i].stores[2])
       /\ DistanceFrom(routes[i].warehouseId, routes[i].stores[1])
            < DistanceFrom(routes[i].warehouseId, routes[i].stores[2])

(***************************************************************************)
(* C9.  Two successive generateRoutes calls on the same warehouses, stores *)
(* and trucks leave collections that agree position by position on         *)
(* warehouseId, truckId, stores, distance and estimatedTime; the second    *)
(* does not add its routes to those of the first.                          *)
(***************************************************************************)
C9_RepeatedGenerationAgrees ==
  \A n \in 1..Len(outputs) : n > 1 => outputs[n] = outputs[n - 1]

C9_Witness ==
  /\ Returned
  /\ Len(outputs) = 2
  /\ Len(routes) = 2
  /\ routes[1].gen = 2
  /\ routes[1].stores # routes[2].stores

(***************************************************************************)
(* C10.  A truck with speed <= 0 that is assigned a store makes            *)
(* generateRoutes fail: the call does not return normally, and no route    *)
(* with an estimatedTime that is Infinity, NaN or negative is written.     *)
(***************************************************************************)
C10_NonPositiveSpeedFailsLoudly ==
  /\ \A i \in 1..Len(routes) :
       routes[i].gen > 0 =>
         routes[i].estimatedTime.kind = "finite" /\ routes[i].estimatedTime.v >= 0
  /\ Returned =>
       ~ \E w \in 1..Len(warehouses) : \E k \in Roster(w) :
           trucks[k].speed <= 0 /\ Rank(w, k) <= Len(stores)

(***************************************************************************)
(* Vocabulary of the properties of the repository operations.              *)
(***************************************************************************)
\* the routes of a collection that do not have the given id, in their order
others(collection, id) == SelectSeq(collection, LAMBDA route : route.id # id)

\* the outcome a repository reports for an id it does not hold
NotFound == "NotFound"

\* the collection after is the collection before with one element behind it, whose id is
\* the one the step drew
grownByOne(before, after, step) ==
  /\ Len(after) = Len(before) + 1
  /\ SubSeq(after, 1, Len(before)) = before
  /\ after[Len(after)].id = step.generated
  /\ after[Len(after)].id # step.id

(***************************************************************************)
(* C11.  updateRoute(id, data) and deleteRoute(id) change only the routes  *)
(* whose id is id: every other route keeps all its fields and its place    *)
(* relative to the others, and updateRoute keeps the number of routes.     *)
(***************************************************************************)
C11_EditsChangeOnlyTheirRoute ==
  [][/\ last' = "updateRoute" =>
          /\ Len(routes') = Len(routes)
          /\ \A i \in 1..Len(routes) : routes[i].id # call'.id => routes'[i] = routes[i]
     /\ last' = "deleteRoute" =>
          others(routes', call'.id) = others(routes, call'.id)]_vars

C11_Witness ==
  /\ last = "updateRoute"
  /\ \E i, j \in 1..Len(routes) :
       /\ routes[i].id = call.id
       /\ routes[i].distance = 1
       /\ routes[j].id # call.id
       /\ routes[j].distance # 1

(***************************************************************************)
(* C12.  In every state reached by addRoute, updateRoute, deleteRoute and  *)
(* generateRoutes, no two routes of the collection have the same id.       *)
(***************************************************************************)
C12_RouteIdsAreDistinct ==
  \A i, j \in 1..Len(routes) : i # j => routes[i].id # routes[j].id

(***************************************************************************)
(* C13.  An id that deleteRoute or the clearing step of generateRoutes     *)
(* took out of the collection is never given to a new route by a later     *)
(* addRoute or generateRoutes.                                             *)
(***************************************************************************)
C13_RemovedIdsAreNotReused ==
  last \in {"addRoute", "generateRoutes:append"} => call.generated \notin removed

(***************************************************************************)
(* C14.  updateRoute and deleteRoute called with an id no route has report *)
(* NotFound to the caller and leave the collection unchanged.              *)
(***************************************************************************)
C14_AbsentIdIsReported ==
  [][(/\ last' \in {"updateRoute", "deleteRoute"}
      /\ call'.id \notin idsOf(routes))
       => /\ call'.returned = NotFound
          /\ routes' = routes]_vars

(***************************************************************************)
(* Vocabulary of the properties of the generated routes.                   *)
(***************************************************************************)
\* the scenario: stores D1, D2, D3 one, two and three degrees east of the warehouse
Scenario ==
  /\ Len(stores) = 3
  /\ stores[1].location = [lat |-> 0, lng |-> 10000]
  /\ stores[2].location = [lat |-> 0, lng |-> 20000]
  /\ stores[3].location = [lat |-> 0, lng |-> 30000]

\* the p-th point of the tour of route i: the warehouse, the stops, the warehouse
PointOf(i, p) ==
  IF p = 0 \/ p > Len(routes[i].stores)
    THEN find(warehouses, routes[i].warehouseId).location
    ELSE find(stores, routes[i].stores[p]).location

\* length in centimetres of the legs p, p + 1, ... of the tour of route i
RECURSIVE LegsFrom(_, _)
LegsFrom(i, p) ==
  IF p > Len(routes[i].stores) THEN 0
  ELSE calculateDistance(PointOf(i, p).lat, PointOf(i, p).lng,
                         PointOf(i, p + 1).lat, PointOf(i, p + 1).lng)
       + LegsFrom(i, p + 1)

TourCm(i) == LegsFrom(i, 0)

SpeedOf(i) == find(trucks, routes[i].truckId).speed

\* the case of C16: every truck has a positive speed and a store of route i is not at the
\* coordinates of the warehouse
AwayFromWarehouse(i) ==
  /\ \A k \in 1..Len(trucks) : trucks[k].speed > 0
  /\ \E p \in 1..Len(routes[i].stores) : PointOf(i, p) # PointOf(i, 0)

C17_AddAppendsOneWithNewId ==
  [][/\ last' = "addWarehouse" =>
          grownByOne(warehouses, warehouses', call') /\ UNCHANGED <<stores, trucks, routes>>
     /\ last' = "addStore" =>
          grownByOne(stores, stores', call') /\ UNCHANGED <<warehouses, trucks, routes>>
     /\ last' = "addTruck" =>
          grownByOne(trucks, trucks', call') /\ UNCHANGED <<warehouses, stores, routes>>
     /\ last' = "addRoute" =>
          grownByOne(routes, routes', call') /\ UNCHANGED <<warehouses, stores, trucks>>]_vars

C17_Witness ==
  /\ last = "addTruck"
  /\ call.id = "own"
  /\ Len(trucks) = Len(sampleTrucks) + 1
  /\ trucks[Len(trucks)].id = call.generated
  /\ trucks[Len(trucks)].speed = 55

(***************************************************************************)
(* C18.  A login call that started with no user logged in and no other     *)
(* call waiting, and during which no other call started, leaves isLoading  *)
(* false when it completes; it leaves isAuthenticated true, a user and no  *)
(* error exactly when the credentials are admin / password, and otherwise  *)
(* isAuthenticated false, no user and an error.                            *)
(***************************************************************************)
C18_LoginOutcome ==
  (settled # null /\ settled.op = "login" /\ settled.loggedOut /\ settled.alone) =>
    /\ ~isLoading
    /\ IF settled.username = "admin" /\ settled.password = "password"
         THEN isAuthenticated /\ user # null /\ error = null
         ELSE ~isAuthenticated /\ user = null /\ error # null

\* a rejected login after an accepted one and a logout
C18_Witness ==
  /\ settled # null
  /\ settled.op = "login"
  /\ settled.loggedOut
  /\ settled.alone
  /\ settled.username = "admin"
  /\ settled.password = "credentials"
  /\ authCalls = 3
  /\ error # null

(***************************************************************************)
(* Vocabulary of the properties of the assignment.                         *)
(***************************************************************************)
\* distance of the s-th store from the w-th warehouse
DistanceAt(w, s) ==
  calculateDistance(warehouses[w].location.lat, warehouses[w].location.lng,
                    stores[s].location.lat, stores[s].location.lng)

\* 0-based place of the s-th store in the list of the stores by ascending distance from the
\* w-th warehouse, stores at equal distance in the order of the collection
SortedIndex(w, s) ==
  Cardinality({t \in 1..Len(stores) :
                 \/ DistanceAt(w, t) < DistanceAt(w, s)
                 \/ DistanceAt(w, t) = DistanceAt(w, s) /\ t < s})

\* the roster of the w-th warehouse: its trucks in the order of the trucks collection
RosterSeq(w) == SelectSeq(trucks, LAMBDA truck : truck.warehouseId = warehouses[w].id)

\* the stops of the route of a warehouse for a truck, none if there is no such route
StopsOf(warehouseId, truckId) ==
  LET of == {i \in 1..Len(routes) :
               routes[i].warehouseId = warehouseId /\ routes[i].truckId = truckId}
  IN IF of = {} THEN <<>> ELSE routes[CHOOSE i \in of : TRUE].stores

\* the stops of the truck at 0-based place r of the roster of the w-th warehouse
StopsAt(w, r) == StopsOf(warehouses[w].id, RosterSeq(w)[r + 1].id)

\* the store handed out in turn n of the round-robin over a roster of M trucks, read from
\* the routes: the stop number n div M + 1 of the truck at place n mod M
HandedOut(w, n) ==
  LET M == Len(RosterSeq(w))
  IN StopsAt(w, n % M)[(n \div M) + 1]

C20_TiesKeepCollectionOrder ==
  Returned =>
    \A w \in 1..Len(warehouses) :
      Roster(w) # {} =>
        LET turn == [n \in 0..(Len(stores) - 1) |-> PositionOf(HandedOut(w, n))]
        IN \A m \in 0..(Len(stores) - 1) : \A n \in (m + 1)..(Len(stores) - 1) :
             DistanceAt(w, turn[m]) = DistanceAt(w, turn[n]) => turn[m] < turn[n]

\* two stores at equal distance behind a nearer store that comes last in the collection
C20_Witness ==
  /\ Returned
  /\ \E w \in 1..Len(warehouses) :
       /\ Cardinality(Roster(w)) = 2
       /\ Len(stores) = 3
       /\ DistanceAt(w, 1) = DistanceAt(w, 2)
       /\ DistanceAt(w, 3) < DistanceAt(w, 1)
       /\ HandedOut(w, 1) = stores[1].id
       /\ HandedOut(w, 2) = stores[2].id

(***************************************************************************)
(* C21.  The distance of every generated route is the length of the closed *)
(* tour warehouse, stores in their listed order, warehouse: the sum of the *)
(* distances of the consecutive legs, the leg back included, rounded to    *)
(* two decimals.                                                           *)
(***************************************************************************)
C21_DistanceIsClosedTour ==
  last \in {"generateRoutes:append", "generateRoutes:return"} =>
    \A i \in 1..Len(routes) :
      routes[i].gen > 0 => routes[i].distance = (TourCm(i) + 500) \div 1000

\* a route over two stops that do not lie on one line with the warehouse: the tour is more
\* than a kilometre longer than the way to the farther stop and back
C21_Witness ==
  /\ Returned
  /\ \E i \in 1..Len(routes) :
       /\ Len(routes[i].stores) = 2
       /\ TourCm(i) > 2 * DistanceFrom(routes[i].warehouseId, routes[i].stores[2]) + 100000
       /\ routes[i].distance = (TourCm(i) + 500) \div 1000

(***************************************************************************)
(* Vocabulary of the properties of the order of the routes.                *)
(***************************************************************************)
\* number of elements of a sequence that equal x
CountOf(seq, x) == Cardinality({i \in 1..Len(seq) : seq[i] = x})

\* two sequences hold the same elements the same number of times
SameBag(a, b) ==
  /\ Len(a) = Len(b)
  /\ \A i \in 1..Len(a) : CountOf(a, a[i]) = CountOf(b, a[i])

\* the warehouses collection in the order given by a permutation of its positions
Permuted(order) == [n \in 1..Len(warehouses) |-> warehouses[order[n]]]

\* position in a collection of warehouses of the one with the given id
PlaceIn(collection, warehouseId) ==
  CHOOSE n \in 1..Len(collection) : collection[n].id = warehouseId

\* the routes of a sequence are grouped by warehouse, in the order of the collection
InOrderOf(collection, seq) ==
  \A i, j \in 1..Len(seq) :
    i < j => PlaceIn(collection, seq[i].warehouseId) <= PlaceIn(collection, seq[j].warehouseId)

(***************************************************************************)
(* C22.  Generating from the warehouses in any other order gives the same  *)
(* routes (warehouseId, truckId, stores, distance, estimatedTime) the same *)
(* number of times, and in either order the routes of an earlier warehouse *)
(* precede those of a later one.                                           *)
(***************************************************************************)
C22_WarehouseOrderOnlyOrders ==
  Returned =>
    /\ InOrderOf(warehouses, routes)
    /\ \A order \in Permutations(1..Len(warehouses)) :
         LET other == routesOfWarehouses(Permuted(order), stores, trucks, 1)
         IN /\ SameBag(cores(routes), other)
            /\ InOrderOf(Permuted(order), other)

\* both warehouses have routes, and the first one's come first
C22_Witness ==
  /\ Returned
  /\ Len(warehouses) = 2
  /\ Len(routes) >= 2
  /\ routes[1].warehouseId = warehouses[1].id
  /\ routes[Len(routes)].warehouseId = warehouses[2].id
  /\ routesOfWarehouses(Permuted(<<2, 1>>), stores, trucks, 1)[1].warehouseId = warehouses[2].id

(***************************************************************************)
(* Vocabulary of the properties of the truck form.                         *)
(***************************************************************************)
\* the step is a submission of the form
Submitted == last' \in {"TruckForm:setErrors", "addTruck", "updateTruck"}

\* the text of the speed input is missing, not a number, zero or negative
BadSpeed(text) == text = "" \/ isNaN(Number(text)) \/ Number(text).v <= 0

\* positions of the trucks the step put into the collection or changed
Entered == {i \in 1..Len(trucks') : i > Len(trucks) \/ trucks'[i] # trucks[i]}

(***************************************************************************)
(* C23.  A truck that a submission of the truck form adds or changes has a *)
(* speed above 0 and a warehouse id that is not empty; a submission whose  *)
(* speed is missing, not a number, zero or negative calls neither addTruck *)
(* nor updateTruck and leaves the trucks as they were.                     *)
(***************************************************************************)
C23_FormAdmitsOnlyPositiveSpeed ==
  [][Submitted =>
       /\ \A i \in Entered : trucks'[i].speed > 0 /\ trucks'[i].warehouseId # ""
       /\ BadSpeed(form.speed) =>
            /\ last' = "TruckForm:setErrors"
            /\ UNCHANGED <<trucks, edits, call>>]_vars

\* a submission with speed 0 was refused after one with a positive speed was taken
C23_Witness ==
  /\ last = "TruckForm:setErrors"
  /\ form.speed = "0"
  /\ form.name = "Van" /\ form.capacity = "1000" /\ form.warehouseId # ""
  /\ \E i \in 1..Len(trucks) : trucks[i] \notin {sampleTrucks[j] : j \in 1..Len(sampleTrucks)}

(***************************************************************************)
(* Vocabulary of the properties of the distance.                           *)
(***************************************************************************)
\* the locations of the warehouses and the stores of the collections
Places ==
  {warehouses[i].location : i \in 1..Len(warehouses)}
    \cup {stores[i].location : i \in 1..Len(stores)}

Between(a, b) == calculateDistance(a.lat, a.lng, b.lat, b.lng)

C25_UpdateKeepsIds ==
  [][last' = "updateRoute" =>
       /\ Len(routes') = Len(routes)
       /\ \A i \in 1..Len(routes) : routes'[i].id = routes[i].id
       /\ idsOf(routes') = idsOf(routes)]_vars

(***************************************************************************)
(* C26.  When generateRoutes has returned, every route names a warehouse   *)
(* of the warehouses collection, a truck of the trucks collection that     *)
(* belongs to that warehouse, and only stores of the stores collection.    *)
(***************************************************************************)
C26_RoutesAreWellFormed ==
  Returned =>
    \A i \in 1..Len(routes) :
      /\ routes[i].warehouseId \in idsOf(warehouses)
      /\ \E k \in 1..Len(trucks) :
           /\ trucks[k].id = routes[i].truckId
           /\ trucks[k].warehouseId = routes[i].warehouseId
      /\ \A p \in 1..Len(routes[i].stores) : routes[i].stores[p] \in idsOf(stores)

\* two warehouses have routes, each driven by a truck of its own
C26_Witness ==
  /\ Returned
  /\ \E i, j \in 1..Len(routes) :
       /\ routes[i].warehouseId # routes[j].warehouseId
       /\ routes[i].truckId # routes[j].truckId
       /\ Len(routes[i].stores) >= 1
       /\ \E k \in 1..Len(trucks) :
            /\ trucks[k].id = routes[j].truckId
            /\ trucks[k].warehouseId = routes[j].warehouseId

(***************************************************************************)
(* Vocabulary of the properties of the management operations.              *)
(***************************************************************************)
\* the route names a warehouse, a truck or a store that its collection does not hold
NoWarehouseOf(route) == route.warehouseId \notin idsOf(warehouses)
NoTruckOf(route) == route.truckId \notin idsOf(trucks)
NoStoreOf(route) == \E p \in 1..Len(route.stores) : route.stores[p] \notin idsOf(stores)

(***************************************************************************)
(* C27.  deleteWarehouse, deleteStore, deleteTruck and updateTruck leave   *)
(* the routes as they were, those included that name what was deleted or   *)
(* moved.                                                                  *)
(***************************************************************************)
C27_DeletionDoesNotCascade ==
  [][last' \in {"deleteWarehouse", "deleteStore", "deleteTruck", "updateTruck"} =>
       routes' = routes]_vars

\* routes are left that name a deleted warehouse, a deleted truck and a deleted store
C27_Witness ==
  /\ last \in {"deleteWarehouse", "deleteStore", "deleteTruck"}
  /\ \E i \in 1..Len(routes) : NoWarehouseOf(routes[i])
  /\ \E i \in 1..Len(routes) : NoTruckOf(routes[i])
  /\ \E i \in 1..Len(routes) : NoStoreOf(routes[i])

(***************************************************************************)
(* C28.  No step of generateRoutes changes warehouses, stores or trucks,   *)
(* the order of their elements included, and every route it appends is the *)
(* one computed from the collections as they were when the call started.   *)
(***************************************************************************)
C28_GeneratesFromEntrySnapshot ==
  [][last' \in {"generateRoutes:clear", "generateRoutes:append", "generateRoutes:return"} =>
       /\ UNCHANGED <<warehouses, stores, trucks>>
       /\ last' = "generateRoutes:append" =>
            core(routes'[Len(routes')]) =
              routesOfWarehouses(Top.from[1], Top.from[2], Top.from[3], 1)[Top.next]]_vars

\* a route was appended that visits a store deleted since the call started, in the order
\* the stores then had
C28_Witness ==
  /\ last = "generateRoutes:append"
  /\ Top.from[2] # stores
  /\ Len(Top.from[2]) >= 2
  /\ \E p \in 1..Len(routes[Len(routes)].stores) :
       routes[Len(routes)].stores[p] \notin idsOf(stores)

(***************************************************************************)
(* Vocabulary of the properties of the order within a warehouse.           *)
(***************************************************************************)
\* first place in trucks of a truck of the warehouse with the given id
PlaceOfTruck(warehouseId, truckId) ==
  CHOOSE k \in 1..Len(trucks) :
    /\ trucks[k].id = truckId
    /\ trucks[k].warehouseId = warehouseId
    /\ \A j \in 1..(k - 1) : ~(trucks[j].id = truckId /\ trucks[j].warehouseId = warehouseId)

(***************************************************************************)
(* C29.  The routes of one warehouse stand in the collection in the order  *)
(* their trucks have in the roster, whatever the ids of the trucks are,    *)
(* ids such as "2" and "10" included.                                      *)
(***************************************************************************)
C29_RoutesInRosterOrder ==
  Returned =>
    \A i, j \in 1..Len(routes) :
      (i < j /\ routes[i].warehouseId = routes[j].warehouseId) =>
        PlaceOfTruck(routes[i].warehouseId, routes[i].truckId)
          <= PlaceOfTruck(routes[j].warehouseId, routes[j].truckId)

(***************************************************************************)
(* C30.  A login or register call that was waiting when logout ran leaves  *)
(* the session logged out when it completes: isAuthenticated is false and  *)
(* there is no user until a call started after the logout succeeds.  The   *)
(* timers fire in the order they were set, so when such a call completes   *)
(* no call started after the logout has completed yet.                     *)
(***************************************************************************)
C30_LogoutOutlastsPendingCalls ==
  (settled # null /\ settled.stale) => (~isAuthenticated /\ user = null)

====
